---- MODULE Spec2Model ----
(***************************************************************************)
(* RAGPage (src/src/pages/RAG.tsx): the component's state hooks, its five  *)
(* asynchronous handlers (loadRag, clearRag, addRag, searchRag,            *)
(* benchmarkRag) and the controls that invoke them.  Every handler is      *)
(* split at its await: the part that runs up to the request being sent,    *)
(* and the continuation that runs when the response or the error arrives.  *)
(* JavaScript is single threaded, so each part is one atomic step.         *)
(*                                                                         *)
(* Strings the code trims are tuples of one-character strings; the         *)
(* similarity threshold is counted in hundredths (35 is 0.35).             *)
(***************************************************************************)
EXTENDS Integers, Sequences, FiniteSets, TLC

\* ------------------------------------------------------------------ bounds
\* requests the page may send in one behaviour (the mount load included)
MaxReq == 3
\* handler invocations that return before sending anything
MaxNoop == 1

\* ------------------------------------------------------------- input sets
Llama == <<"l", "l", "a", "m", "a">>

Texts == {<<>>, <<" ">>, <<"a">>, <<" ", "a">>}
Queries == {<<>>, <<" ">>, <<"q">>}
\* the same texts and a second document, to type while the first is sent
Drafts == Texts \cup {<<"b">>}
TopKs == {0, 3}
Similarities == {35, 150}
LlmNames == {Llama, <<" ">>}

DocLists == {<<"d1">>, <<"d1", "d2">>}
ResultLists == {<<"r1">>}

\* ------------------------------------------------------------ the state
VARIABLES
    mounted,        \* the useEffect of line 150 has run
    docs, loading, logs, newText, query, topK, similarity, searching,
    searchResults, metrics, isBenchmarking, benchmarkLlm, showLlmOption,
    network,        \* requests handed to axiosInstance, in order
    inflight,       \* suspended handler frames, one per pending await
    done,           \* history: the settled requests, in completion order
    logBy,          \* history: for each log line, the request it belongs to
    lastCall        \* history: the last handler invocation

state == <<docs, loading, logs, newText, query, topK, similarity, searching,
           searchResults, metrics, isBenchmarking, benchmarkLlm, showLlmOption>>
vars == <<mounted, docs, loading, logs, newText, query, topK, similarity,
          searching, searchResults, metrics, isBenchmarking, benchmarkLlm,
          showLlmOption, network, inflight, done, logBy, lastCall>>

\* useState<RagMetrics | null>(null)
Null == [null |-> TRUE]

\* --------------------------------------------------------------- helpers
RECURSIVE TrimStart(_)
TrimStart(s) == IF s # <<>> /\ Head(s) = " " THEN TrimStart(Tail(s)) ELSE s

RECURSIVE TrimEnd(_)
TrimEnd(s) ==
    IF s # <<>> /\ s[Len(s)] = " " THEN TrimEnd(SubSeq(s, 1, Len(s) - 1)) ELSE s

\* a trim that strips nothing
Trim_nothing(s) == s

\* String.prototype.trim
Trim(s) == TrimEnd(TrimStart(s))

\* the axios configuration: baseURL and the default timeout, in milliseconds
DefaultTimeout == 10000
BenchmarkTimeout == 120000

\* ------------------------------------------------------ what servers answer
\* a rejected request: the axios error, with the body of the failed response
\* when there is one
Errors ==
    { [message |-> "Network Error", response |-> [none |-> TRUE]],
      [message |-> "Request failed with status code 500",
       response |-> [data |-> [error |-> "index busy"]]] }

TransportErrors == {e \in Errors : "none" \in DOMAIN e.response}

ListBodies == {[documents |-> l] : l \in DocLists} \cup {[ok |-> TRUE]}
SearchBodies == {[results |-> r] : r \in ResultLists} \cup {[ok |-> TRUE]}

Mandatory == {"index_size", "indexing_time_s", "memory", "relevance",
              "restoration", "retrieval_performance", "vram", "ok",
              "documents_indexed"}

\* a benchmark payload: the sub-records it carries and the fields of its
\* rag_impact that hold a value, when it has one (a field holding the empty
\* string reads like a missing one in the conditions of the page)
MetricsBodies ==
    { [has |-> Mandatory, rag_impact |-> {}],
      [has |-> Mandatory \cup {"rag_impact"}, rag_impact |-> {"skipped"}],
      [has |-> Mandatory \cup {"rag_impact"}, rag_impact |-> {"query", "rag_overhead_s"}],
      [has |-> Mandatory \ {"memory"}, rag_impact |-> {}] }

\* complete payloads with every rag_impact a server can put together
ImpactBodies ==
    {[has |-> Mandatory, rag_impact |-> {}]} \cup
    {[has |-> Mandatory \cup {"rag_impact"}, rag_impact |-> fields] :
        fields \in SUBSET {"skipped", "query", "rag_overhead_s"}}

\* String(e?.message || e)
ErrText(e) == IF e.message # "" THEN e.message ELSE "[object Object]"

\* err.message whatever the server said
BenchErrText_messageOnly(e) == e.message

\* err?.response?.data?.error || err.message
BenchErrText(e) ==
    IF "data" \in DOMAIN e.response /\ "error" \in DOMAIN e.response.data
       /\ e.response.data.error # ""
    THEN e.response.data.error
    ELSE e.message

\* res.data?.documents ?? []
Documents(data) == IF "documents" \in DOMAIN data THEN data.documents ELSE <<>>

\* res.data?.results ?? []
Results(data) == IF "results" \in DOMAIN data THEN data.results ELSE <<>>

\* ------------------------------------------------- requests and suspensions
NextId == Len(network) + 1

Request(method, url, body, timeout) ==
    [method |-> method, url |-> url, body |-> body, timeout |-> timeout]

\* the frame a handler leaves behind at its await: which handler, the add
\* whose continuation called it (0 when none), and the values of topK and
\* similarity its continuation reads from its closure
Frame(id, fn, by, k, thr) ==
    [id |-> id, fn |-> fn, by |-> by, topK |-> k, similarity |-> thr]

\* a settled request: the frame it resumed, what the server answered, and
\* whether the handler let the error escape (every handler catches: never)
Settled(f, r) ==
    [id |-> f.id, fn |-> f.fn, by |-> f.by, res |-> r, rejected |-> FALSE]

Pending(fn) == {f \in inflight : f.fn = fn}

\* setLogs([...logs, line]) with the logs of the first render, which is empty
Log_fromFirstRender(l, line) == <<line>>

\* setLogs((l) => [...l, line])
Log(l, line) == Append(l, line)

Init ==
    /\ mounted = FALSE
    /\ docs = <<>>
    /\ loading = FALSE
    /\ logs = <<>>
    /\ newText = <<>>
    /\ query = <<>>
    /\ topK = 3
    /\ similarity = 35
    /\ searching = FALSE
    /\ searchResults = <<>>
    /\ metrics = Null
    /\ isBenchmarking = FALSE
    /\ benchmarkLlm = Llama
    /\ showLlmOption = FALSE
    /\ network = <<>>
    /\ inflight = {}
    /\ done = <<>>
    /\ logBy = <<>>
    /\ lastCall = [n |-> 0, fn |-> "none"]

\* the other hooks, for the UNCHANGED clauses
inputs == <<newText, query, topK, similarity, benchmarkLlm, showLlmOption>>
store == <<docs, searchResults, metrics>>
flags == <<loading, searching, isBenchmarking>>
history == <<done, logBy>>

Called(fn) == lastCall' = [n |-> lastCall.n + 1, fn |-> fn]

\* invocations so far that returned without sending
Noops == lastCall.n - Len(network)

\* room for n more requests, counting the list request every pending add
\* sends when it succeeds
Budget(n) == Len(network) + Cardinality(Pending("addRag")) + n <= MaxReq

IsError(r) == "message" \in DOMAIN r

\* ------------------------------------------- handlers, up to their await
\* loadRag, lines 70-73: fl is the set of frames it is called among
loadRag(fl, by) ==
    /\ Called("loadRag")
    /\ loading' = TRUE
    /\ network' = Append(network,
                     Request("GET", "/rag/list", [none |-> TRUE], DefaultTimeout))
    /\ inflight' = fl \cup {Frame(NextId, "loadRag", by, 0, 0)}

\* clearRag, lines 84-86
clearRag ==
    /\ Called("clearRag")
    /\ network' = Append(network,
                     Request("POST", "/rag/clear", [none |-> TRUE], DefaultTimeout))
    /\ inflight' = inflight \cup {Frame(NextId, "clearRag", 0, 0, 0)}
    /\ UNCHANGED <<state, mounted, history>>

\* addRag, lines 94-98
addRag ==
    LET text == Trim(newText) IN
    /\ Called("addRag")
    /\ IF text = <<>>
       THEN UNCHANGED <<network, inflight>>
       ELSE /\ network' = Append(network,
                     Request("POST", "/rag/add", [text |-> text], DefaultTimeout))
            /\ inflight' = inflight \cup {Frame(NextId, "addRag", 0, 0, 0)}
    /\ UNCHANGED <<state, mounted, history>>

\* searchRag taking one busy flag for the whole page
searchRag_globalBusy ==
    LET q == Trim(query) IN
    /\ Called("searchRag")
    /\ IF q = <<>>
       THEN UNCHANGED <<network, inflight, searching, loading>>
       ELSE /\ searching' = TRUE
            /\ loading' = TRUE
            /\ network' = Append(network,
                     Request("POST", "/rag/search",
                             [query |-> q, top_k |-> topK,
                              similarity_threshold |-> similarity],
                             DefaultTimeout))
            /\ inflight' = inflight \cup {Frame(NextId, "searchRag", 0, topK, similarity)}
    /\ UNCHANGED <<docs, logs, inputs, searchResults, metrics,
                   isBenchmarking, mounted, history>>

\* searchRag, lines 107-116
searchRag ==
    LET q == Trim(query) IN
    /\ Called("searchRag")
    /\ IF q = <<>>
       THEN UNCHANGED <<network, inflight, searching>>
       ELSE /\ searching' = TRUE
            /\ network' = Append(network,
                     Request("POST", "/rag/search",
                             [query |-> q, top_k |-> topK,
                              similarity_threshold |-> similarity],
                             DefaultTimeout))
            /\ inflight' = inflight \cup {Frame(NextId, "searchRag", 0, topK, similarity)}
    /\ UNCHANGED <<docs, loading, logs, inputs, searchResults, metrics,
                   isBenchmarking, mounted, history>>

\* benchmarkRag without setMetrics(null)
benchmarkRag_keepsMetrics(withLlm) ==
    LET benchmarkType == IF withLlm THEN <<"RAG with LLM", benchmarkLlm>>
                                    ELSE <<"RAG without LLM">>
        body == IF withLlm THEN [llm_name |-> benchmarkLlm] ELSE <<>>
    IN
    /\ Called("benchmarkRag")
    /\ isBenchmarking' = TRUE
    /\ metrics' = metrics
    /\ logs' = Log(logs, [msg |-> "Starting benchmark", type |-> benchmarkType])
    /\ logBy' = Append(logBy, NextId)
    /\ network' = Append(network,
                     Request("POST", "/rag_metrics", body, BenchmarkTimeout))
    /\ inflight' = inflight \cup {Frame(NextId, "benchmarkRag", 0, 0, 0)}
    /\ UNCHANGED <<docs, loading, newText, query, topK, similarity, searching,
                   searchResults, benchmarkLlm, mounted, done>>

\* benchmarkRag, lines 127-139
benchmarkRag(withLlm) ==
    LET benchmarkType == IF withLlm THEN <<"RAG with LLM", benchmarkLlm>>
                                    ELSE <<"RAG without LLM">>
        body == IF withLlm THEN [llm_name |-> benchmarkLlm] ELSE <<>>
    IN
    /\ Called("benchmarkRag")
    /\ isBenchmarking' = TRUE
    /\ metrics' = Null
    /\ logs' = Log(logs, [msg |-> "Starting benchmark", type |-> benchmarkType])
    /\ logBy' = Append(logBy, NextId)
    /\ network' = Append(network,
                     Request("POST", "/rag_metrics", body, BenchmarkTimeout))
    /\ inflight' = inflight \cup {Frame(NextId, "benchmarkRag", 0, 0, 0)}
    /\ UNCHANGED <<docs, loading, newText, query, topK, similarity, searching,
                   searchResults, benchmarkLlm, mounted, done>>

\* ------------------------------------- handlers, from their await onwards
\* loadRag applying a response only when no later load has been applied
loadRagResume_newestOnly(f, r) ==
    LET stale == \E i \in 1..Len(done) :
                     done[i].fn = "loadRag" /\ ~IsError(done[i].res) /\ done[i].id > f.id
    IN
    /\ f.fn = "loadRag"
    /\ IF ~IsError(r)
       THEN LET list == Documents(r.data) IN
            /\ docs' = IF stale THEN docs ELSE list
            /\ logs' = Log(logs, [msg |-> "Loaded RAG documents", n |-> Len(list)])
       ELSE /\ docs' = docs
            /\ logs' = Log(logs, [msg |-> "Failed to load RAG", error |-> ErrText(r)])
    /\ loading' = FALSE
    /\ inflight' = inflight \ {f}
    /\ done' = Append(done, Settled(f, r))
    /\ logBy' = Append(logBy, f.id)
    /\ UNCHANGED <<inputs, searching, searchResults, metrics, isBenchmarking,
                   mounted, network, lastCall>>

\* loadRag logging the length of docs as its closure sees it
loadRagResume_staleCount(f, r) ==
    /\ f.fn = "loadRag"
    /\ IF ~IsError(r)
       THEN LET list == Documents(r.data) IN
            /\ docs' = list
            /\ logs' = Log(logs, [msg |-> "Loaded RAG documents", n |-> Len(docs)])
       ELSE /\ docs' = docs
            /\ logs' = Log(logs, [msg |-> "Failed to load RAG", error |-> ErrText(r)])
    /\ loading' = FALSE
    /\ inflight' = inflight \ {f}
    /\ done' = Append(done, Settled(f, r))
    /\ logBy' = Append(logBy, f.id)
    /\ UNCHANGED <<inputs, searching, searchResults, metrics, isBenchmarking,
                   mounted, network, lastCall>>

\* loadRag without its catch block: the error of a load that addRag awaits
\* lands in the catch block of addRag
loadRagResume_noCatch(f, r) ==
    /\ f.fn = "loadRag"
    /\ IF ~IsError(r)
       THEN LET list == Documents(r.data) IN
            /\ docs' = list
            /\ logs' = Log(logs, [msg |-> "Loaded RAG documents", n |-> Len(list)])
            /\ logBy' = Append(logBy, f.id)
       ELSE /\ docs' = docs
            /\ logs' = Log(logs, [msg |-> IF f.by # 0 THEN "Failed to add RAG doc"
                                                      ELSE "Failed to load RAG",
                                  error |-> ErrText(r)])
            /\ logBy' = Append(logBy, IF f.by # 0 THEN f.by ELSE f.id)
    /\ loading' = FALSE
    /\ inflight' = inflight \ {f}
    /\ done' = Append(done, Settled(f, r))
    /\ UNCHANGED <<inputs, searching, searchResults, metrics, isBenchmarking,
                   mounted, network, lastCall>>

\* loadRag, lines 74-81
loadRagResume(f, r) ==
    /\ f.fn = "loadRag"
    /\ IF ~IsError(r)
       THEN LET list == Documents(r.data) IN
            /\ docs' = list
            /\ logs' = Log(logs, [msg |-> "Loaded RAG documents", n |-> Len(list)])
       ELSE /\ docs' = docs
            /\ logs' = Log(logs, [msg |-> "Failed to load RAG", error |-> ErrText(r)])
    /\ loading' = FALSE
    /\ inflight' = inflight \ {f}
    /\ done' = Append(done, Settled(f, r))
    /\ logBy' = Append(logBy, f.id)
    /\ UNCHANGED <<inputs, searching, searchResults, metrics, isBenchmarking,
                   mounted, network, lastCall>>

\* clearRag emptying docs whatever the server answered
clearRagResume_optimistic(f, r) ==
    /\ f.fn = "clearRag"
    /\ docs' = <<>>
    /\ IF ~IsError(r)
       THEN logs' = Log(logs, [msg |-> "Cleared RAG documents"])
       ELSE logs' = Log(logs, [msg |-> "Failed to clear RAG", error |-> ErrText(r)])
    /\ inflight' = inflight \ {f}
    /\ done' = Append(done, Settled(f, r))
    /\ logBy' = Append(logBy, f.id)
    /\ UNCHANGED <<inputs, flags, searchResults, metrics, mounted, network, lastCall>>

\* clearRag logging only when there was something to clear
clearRagResume_quiet(f, r) ==
    /\ f.fn = "clearRag"
    /\ IF ~IsError(r)
       THEN /\ docs' = <<>>
            /\ logs' = IF docs # <<>> THEN Log(logs, [msg |-> "Cleared RAG documents"])
                                      ELSE logs
            /\ logBy' = IF docs # <<>> THEN Append(logBy, f.id) ELSE logBy
       ELSE /\ docs' = docs
            /\ logs' = Log(logs, [msg |-> "Failed to clear RAG", error |-> ErrText(r)])
            /\ logBy' = Append(logBy, f.id)
    /\ inflight' = inflight \ {f}
    /\ done' = Append(done, Settled(f, r))
    /\ UNCHANGED <<inputs, flags, searchResults, metrics, mounted, network, lastCall>>

\* clearRag, lines 87-91
clearRagResume(f, r) ==
    /\ f.fn = "clearRag"
    /\ IF ~IsError(r)
       THEN /\ docs' = <<>>
            /\ logs' = Log(logs, [msg |-> "Cleared RAG documents"])
       ELSE /\ docs' = docs
            /\ logs' = Log(logs, [msg |-> "Failed to clear RAG", error |-> ErrText(r)])
    /\ inflight' = inflight \ {f}
    /\ done' = Append(done, Settled(f, r))
    /\ logBy' = Append(logBy, f.id)
    /\ UNCHANGED <<inputs, flags, searchResults, metrics, mounted, network, lastCall>>

\* addRag without its call of loadRag
addRagResume_noReload(f, r) ==
    /\ f.fn = "addRag"
    /\ IF ~IsError(r)
       THEN /\ logs' = Log(logs, [msg |-> "Added new RAG document"])
            /\ newText' = <<>>
       ELSE /\ logs' = Log(logs, [msg |-> "Failed to add RAG doc", error |-> ErrText(r)])
            /\ UNCHANGED newText
    /\ inflight' = inflight \ {f}
    /\ done' = Append(done, Settled(f, r))
    /\ logBy' = Append(logBy, f.id)
    /\ UNCHANGED <<docs, query, topK, similarity, benchmarkLlm, showLlmOption,
                   searching, searchResults, metrics, isBenchmarking, mounted,
                   loading, network, lastCall>>

\* addRag emptying the textarea whatever the server answered
addRagResume_clearsAlways(f, r) ==
    /\ f.fn = "addRag"
    /\ newText' = <<>>
    /\ IF ~IsError(r)
       THEN /\ logs' = Log(logs, [msg |-> "Added new RAG document"])
            /\ loadRag(inflight \ {f}, f.id)
       ELSE /\ logs' = Log(logs, [msg |-> "Failed to add RAG doc", error |-> ErrText(r)])
            /\ inflight' = inflight \ {f}
            /\ UNCHANGED <<loading, network, lastCall>>
    /\ done' = Append(done, Settled(f, r))
    /\ logBy' = Append(logBy, f.id)
    /\ UNCHANGED <<docs, query, topK, similarity, benchmarkLlm, showLlmOption,
                   searching, searchResults, metrics, isBenchmarking, mounted>>

\* addRag, lines 99-104.  On success the continuation calls loadRag, which
\* runs to its own await; what is left of addRag after that await is empty.
addRagResume(f, r) ==
    /\ f.fn = "addRag"
    /\ IF ~IsError(r)
       THEN /\ logs' = Log(logs, [msg |-> "Added new RAG document"])
            /\ newText' = <<>>
            /\ loadRag(inflight \ {f}, f.id)
       ELSE /\ logs' = Log(logs, [msg |-> "Failed to add RAG doc", error |-> ErrText(r)])
            /\ inflight' = inflight \ {f}
            /\ UNCHANGED <<newText, loading, network, lastCall>>
    /\ done' = Append(done, Settled(f, r))
    /\ logBy' = Append(logBy, f.id)
    /\ UNCHANGED <<docs, query, topK, similarity, benchmarkLlm, showLlmOption,
                   searching, searchResults, metrics, isBenchmarking, mounted>>

\* searchRag logging topK and similarity as they are when it resumes
searchRagResume_currentInputs(f, r) ==
    /\ f.fn = "searchRag"
    /\ IF ~IsError(r)
       THEN LET results == Results(r.data) IN
            /\ searchResults' = results
            /\ logs' = Log(logs, [msg |-> "Search found", n |-> Len(results),
                                  top_k |-> topK, thr |-> similarity])
       ELSE /\ searchResults' = searchResults
            /\ logs' = Log(logs, [msg |-> "Failed to search RAG", error |-> ErrText(r)])
    /\ searching' = FALSE
    /\ inflight' = inflight \ {f}
    /\ done' = Append(done, Settled(f, r))
    /\ logBy' = Append(logBy, f.id)
    /\ UNCHANGED <<docs, loading, inputs, metrics, isBenchmarking, mounted,
                   network, lastCall>>

\* searchRag dropping the results it holds when the request fails
searchRagResume_clearsOnFailure(f, r) ==
    /\ f.fn = "searchRag"
    /\ IF ~IsError(r)
       THEN LET results == Results(r.data) IN
            /\ searchResults' = results
            /\ logs' = Log(logs, [msg |-> "Search found", n |-> Len(results),
                                  top_k |-> f.topK, thr |-> f.similarity])
       ELSE /\ searchResults' = <<>>
            /\ logs' = Log(logs, [msg |-> "Failed to search RAG", error |-> ErrText(r)])
    /\ searching' = FALSE
    /\ inflight' = inflight \ {f}
    /\ done' = Append(done, Settled(f, r))
    /\ logBy' = Append(logBy, f.id)
    /\ UNCHANGED <<docs, loading, inputs, metrics, isBenchmarking, mounted,
                   network, lastCall>>

\* searchRag, lines 117-124
searchRagResume(f, r) ==
    /\ f.fn = "searchRag"
    /\ IF ~IsError(r)
       THEN LET results == Results(r.data) IN
            /\ searchResults' = results
            /\ logs' = Log(logs, [msg |-> "Search found", n |-> Len(results),
                                  top_k |-> f.topK, thr |-> f.similarity])
       ELSE /\ searchResults' = searchResults
            /\ logs' = Log(logs, [msg |-> "Failed to search RAG", error |-> ErrText(r)])
    /\ searching' = FALSE
    /\ inflight' = inflight \ {f}
    /\ done' = Append(done, Settled(f, r))
    /\ logBy' = Append(logBy, f.id)
    /\ UNCHANGED <<docs, loading, inputs, metrics, isBenchmarking, mounted,
                   network, lastCall>>

\* benchmarkRag swallowing a failure without a word
benchmarkRagResume_silentFailure(f, r) ==
    /\ f.fn = "benchmarkRag"
    /\ IF ~IsError(r)
       THEN /\ metrics' = r.data
            /\ logs' = Log(logs, [msg |-> "Benchmark completed successfully!"])
            /\ logBy' = Append(logBy, f.id)
       ELSE /\ metrics' = metrics
            /\ UNCHANGED <<logs, logBy>>
    /\ isBenchmarking' = FALSE
    /\ inflight' = inflight \ {f}
    /\ done' = Append(done, Settled(f, r))
    /\ UNCHANGED <<docs, loading, inputs, searching, searchResults, mounted,
                   network, lastCall>>

\* benchmarkRag releasing isBenchmarking at the end of its try block
benchmarkRagResume_noFinally(f, r) ==
    /\ f.fn = "benchmarkRag"
    /\ IF ~IsError(r)
       THEN /\ metrics' = r.data
            /\ logs' = Log(logs, [msg |-> "Benchmark completed successfully!"])
            /\ isBenchmarking' = FALSE
       ELSE /\ metrics' = metrics
            /\ logs' = Log(logs, [msg |-> "Benchmark error", error |-> BenchErrText(r)])
            /\ isBenchmarking' = isBenchmarking
    /\ inflight' = inflight \ {f}
    /\ done' = Append(done, Settled(f, r))
    /\ logBy' = Append(logBy, f.id)
    /\ UNCHANGED <<docs, loading, inputs, searching, searchResults, mounted,
                   network, lastCall>>

\* benchmarkRag, lines 140-147
benchmarkRagResume(f, r) ==
    /\ f.fn = "benchmarkRag"
    /\ IF ~IsError(r)
       THEN /\ metrics' = r.data
            /\ logs' = Log(logs, [msg |-> "Benchmark completed successfully!"])
       ELSE /\ metrics' = metrics
            /\ logs' = Log(logs, [msg |-> "Benchmark error", error |-> BenchErrText(r)])
    /\ isBenchmarking' = FALSE
    /\ inflight' = inflight \ {f}
    /\ done' = Append(done, Settled(f, r))
    /\ logBy' = Append(logBy, f.id)
    /\ UNCHANGED <<docs, loading, inputs, searching, searchResults, mounted,
                   network, lastCall>>

\* ------------------------------------------------------------ responses
ListResponses == {[data |-> b] : b \in ListBodies} \cup TransportErrors
PlainResponses == {[data |-> [ok |-> TRUE]]} \cup TransportErrors
SearchResponses == {[data |-> b] : b \in SearchBodies} \cup TransportErrors
MetricsResponses == {[data |-> b] : b \in MetricsBodies} \cup Errors

LoadSettles == \E f \in Pending("loadRag") : \E r \in ListResponses : loadRagResume(f, r)
ClearSettles == \E f \in Pending("clearRag") : \E r \in PlainResponses : clearRagResume(f, r)
AddSettles == \E f \in Pending("addRag") : \E r \in PlainResponses : addRagResume(f, r)
SearchSettles == \E f \in Pending("searchRag") : \E r \in SearchResponses : searchRagResume(f, r)
BenchmarkSettles ==
    \E f \in Pending("benchmarkRag") : \E r \in MetricsResponses : benchmarkRagResume(f, r)

ImpactResponses == {[data |-> b] : b \in ImpactBodies} \cup Errors
BenchmarkSettlesImpact ==
    \E f \in Pending("benchmarkRag") : \E r \in ImpactResponses : benchmarkRagResume(f, r)

\* ------------------------------------------------------------- the page
\* the RAG Impact section shown whenever rag_impact is there
ShowsRagImpact_whenPresent(m) == m # Null /\ "rag_impact" \in m.has

\* the RAG Impact section, inside the metrics panel: lines 308 and 401,
\* metrics && ... metrics.rag_impact && !metrics.rag_impact.skipped
ShowsRagImpact(m) ==
    m # Null /\ "rag_impact" \in m.has /\ "skipped" \notin m.rag_impact

\* the skipped message: lines 308 and 437, metrics.rag_impact?.skipped
ShowsSkipped(m) ==
    m # Null /\ "rag_impact" \in m.has /\ "skipped" \in m.rag_impact

\* useEffect(() => { loadRag(); }, []), lines 150-152
Mount ==
    /\ ~mounted
    /\ mounted' = TRUE
    /\ loadRag(inflight, 0)
    /\ UNCHANGED <<docs, logs, inputs, searching, searchResults, metrics,
                   isBenchmarking, history>>

\* the Refresh RAG button, lines 158-164
ClickRefresh ==
    /\ mounted /\ ~loading /\ Budget(1)
    /\ loadRag(inflight, 0)
    /\ UNCHANGED <<docs, logs, inputs, searching, searchResults, metrics,
                   isBenchmarking, mounted, history>>

\* the Clear RAG button, lines 165-170
ClickClear == mounted /\ Budget(1) /\ clearRag

\* the Add RAG button, lines 288-294
ClickAdd == mounted /\ Trim(newText) # <<>> /\ Budget(2) /\ addRag

\* the Search button without its searching guard
ClickSearch_notDisabled == mounted /\ Trim(query) # <<>> /\ Budget(1) /\ searchRag

\* the Search button, lines 205-211
ClickSearch == mounted /\ ~searching /\ Trim(query) # <<>> /\ Budget(1) /\ searchRag

\* the Benchmark (No LLM) button, lines 217-223
ClickBenchmarkNoLlm ==
    /\ mounted /\ ~isBenchmarking /\ Budget(1)
    /\ benchmarkRag(FALSE)
    /\ UNCHANGED showLlmOption

\* the Benchmark (With LLM) button, lines 224-230
ClickBenchmarkWithLlm ==
    /\ mounted /\ ~isBenchmarking
    /\ showLlmOption' = ~showLlmOption
    /\ UNCHANGED <<docs, loading, logs, newText, query, topK, similarity,
                   searching, searchResults, metrics, isBenchmarking,
                   benchmarkLlm, mounted, network, inflight, history, lastCall>>

\* the Start Benchmark button disabled only while a benchmark runs
ClickStartBenchmark_noNameCheck ==
    /\ mounted /\ showLlmOption /\ ~isBenchmarking
    /\ Budget(1)
    /\ benchmarkRag(TRUE)
    /\ showLlmOption' = FALSE

\* the Start Benchmark button, lines 242-251
ClickStartBenchmark ==
    /\ mounted /\ showLlmOption /\ ~isBenchmarking /\ Trim(benchmarkLlm) # <<>>
    /\ Budget(1)
    /\ benchmarkRag(TRUE)
    /\ showLlmOption' = FALSE

\* the inputs' onChange handlers, lines 176, 188, 200, 238, 284
ChangeQuery ==
    /\ mounted
    /\ \E v \in Queries \ {query} : query' = v
    /\ UNCHANGED <<docs, loading, logs, newText, topK, similarity, searching,
                   searchResults, metrics, isBenchmarking, benchmarkLlm,
                   showLlmOption, mounted, network, inflight, history, lastCall>>

ChangeTopK ==
    /\ mounted
    /\ \E v \in TopKs \ {topK} : topK' = v
    /\ UNCHANGED <<docs, loading, logs, newText, query, similarity, searching,
                   searchResults, metrics, isBenchmarking, benchmarkLlm,
                   showLlmOption, mounted, network, inflight, history, lastCall>>

ChangeSimilarity ==
    /\ mounted
    /\ \E v \in Similarities \ {similarity} : similarity' = v
    /\ UNCHANGED <<docs, loading, logs, newText, query, topK, searching,
                   searchResults, metrics, isBenchmarking, benchmarkLlm,
                   showLlmOption, mounted, network, inflight, history, lastCall>>

ChangeBenchmarkLlm ==
    /\ mounted /\ showLlmOption
    /\ \E v \in LlmNames \ {benchmarkLlm} : benchmarkLlm' = v
    /\ UNCHANGED <<docs, loading, logs, newText, query, topK, similarity,
                   searching, searchResults, metrics, isBenchmarking,
                   showLlmOption, mounted, network, inflight, history, lastCall>>

ChangeNewText ==
    /\ mounted
    /\ \E v \in Texts \ {newText} : newText' = v
    /\ UNCHANGED <<docs, loading, logs, query, topK, similarity, searching,
                   searchResults, metrics, isBenchmarking, benchmarkLlm,
                   showLlmOption, mounted, network, inflight, history, lastCall>>

\* the textarea's onChange handler, typing any draft
ChangeDraft ==
    /\ mounted
    /\ \E v \in Drafts \ {newText} : newText' = v
    /\ UNCHANGED <<docs, loading, logs, query, topK, similarity, searching,
                   searchResults, metrics, isBenchmarking, benchmarkLlm,
                   showLlmOption, mounted, network, inflight, history, lastCall>>

\* ------------------------------------------------------ specifications
\* the document list, driven through its controls: the mount load, Refresh,
\* Clear, the Add RAG textarea and button
NextCorpus ==
    \/ Mount
    \/ ClickRefresh
    \/ ClickClear
    \/ ClickAdd
    \/ ChangeNewText
    \/ LoadSettles
    \/ ClearSettles
    \/ AddSettles

SpecCorpus == Init /\ [][NextCorpus]_vars

\* search, driven through its controls, beside the mount load
NextSearch ==
    \/ Mount
    \/ ClickSearch
    \/ ChangeQuery
    \/ ChangeTopK
    \/ ChangeSimilarity
    \/ LoadSettles
    \/ SearchSettles

SpecSearch == Init /\ [][NextSearch]_vars

\* the benchmark, driven through its controls, beside the mount load and Clear
NextBenchmark ==
    \/ Mount
    \/ ClickClear
    \/ ClickBenchmarkNoLlm
    \/ ClickBenchmarkWithLlm
    \/ ClickStartBenchmark
    \/ ChangeBenchmarkLlm
    \/ LoadSettles
    \/ ClearSettles
    \/ BenchmarkSettles

SpecBenchmark == Init /\ [][NextBenchmark]_vars

\* search, benchmark and Clear side by side, with topK, similarity and the
\* LLM name left at their initial values
NextQuery ==
    \/ Mount
    \/ ClickClear
    \/ ClickSearch
    \/ ClickBenchmarkNoLlm
    \/ ClickBenchmarkWithLlm
    \/ ClickStartBenchmark
    \/ ChangeQuery
    \/ LoadSettles
    \/ ClearSettles
    \/ SearchSettles
    \/ BenchmarkSettles

SpecQuery == Init /\ [][NextQuery]_vars

\* addRag and searchRag invoked as functions, whatever their buttons'
\* disabled attributes say
CallAdd ==
    /\ mounted
    /\ IF Trim(newText) = <<>> THEN Noops < MaxNoop ELSE Budget(2)
    /\ addRag

CallSearch ==
    /\ mounted
    /\ IF Trim(query) = <<>> THEN Noops < MaxNoop ELSE Budget(1)
    /\ searchRag

NextCalls ==
    \/ Mount
    \/ CallAdd
    \/ CallSearch
    \/ ChangeNewText
    \/ ChangeQuery
    \/ LoadSettles
    \/ AddSettles
    \/ SearchSettles

SpecCalls == Init /\ [][NextCalls]_vars

\* the five handlers side by side, each through its button
NextStore ==
    \/ Mount
    \/ ClickClear
    \/ ClickAdd
    \/ ClickSearch
    \/ ClickBenchmarkNoLlm
    \/ ChangeNewText
    \/ ChangeQuery
    \/ LoadSettles
    \/ ClearSettles
    \/ AddSettles
    \/ SearchSettles
    \/ BenchmarkSettles

SpecStore == Init /\ [][NextStore]_vars

\* the three handlers that hold a busy flag, through their buttons
NextBusy ==
    \/ Mount
    \/ ClickRefresh
    \/ ClickSearch
    \/ ClickBenchmarkNoLlm
    \/ ChangeQuery
    \/ LoadSettles
    \/ SearchSettles
    \/ BenchmarkSettles

\* every request is answered in the end: axios settles each promise with
\* the response, the error, or its timeout
ResponsesArrive ==
    /\ WF_vars(LoadSettles)
    /\ WF_vars(SearchSettles)
    /\ WF_vars(BenchmarkSettles)

SpecFlags == Init /\ [][NextBusy]_vars

SpecBusy == SpecFlags /\ ResponsesArrive

\* the Add RAG textarea and button, the user typing on while an add is sent
NextDraft ==
    \/ Mount
    \/ ClickAdd
    \/ ChangeDraft
    \/ LoadSettles
    \/ AddSettles

SpecDraft == Init /\ [][NextDraft]_vars

\* the benchmark through its controls, answered with any rag_impact
NextImpact ==
    \/ Mount
    \/ ClickBenchmarkNoLlm
    \/ ClickBenchmarkWithLlm
    \/ ClickStartBenchmark
    \/ LoadSettles
    \/ BenchmarkSettlesImpact

SpecImpact == Init /\ [][NextImpact]_vars

\* addRag invoked as a function next to the benchmark
NextActivity ==
    \/ Mount
    \/ CallAdd
    \/ ChangeNewText
    \/ ClickBenchmarkNoLlm
    \/ LoadSettles
    \/ AddSettles
    \/ BenchmarkSettles

SpecActivity == Init /\ [][NextActivity]_vars

TypeOK ==
    /\ mounted \in BOOLEAN
    /\ loading \in BOOLEAN /\ searching \in BOOLEAN /\ isBenchmarking \in BOOLEAN
    /\ newText \in Drafts /\ query \in Queries
    /\ topK \in TopKs /\ similarity \in Similarities
    /\ benchmarkLlm \in LlmNames /\ showLlmOption \in BOOLEAN
    /\ docs \in DocLists \cup {<<>>}
    /\ searchResults \in ResultLists \cup {<<>>}
    /\ metrics \in MetricsBodies \cup ImpactBodies \cup {Null}
    /\ Len(network) <= MaxReq
    /\ Len(logs) = Len(logBy)
    /\ \A f \in inflight : f.id \in 1..Len(network)

\* ------------------------------------------------------ reading histories
Last(q) == q[Len(q)]

Succeeded(d) == ~IsError(d.res)

\* the log lines a request owns, by position
LinesOf(id) == {j \in 1..Len(logs) : logBy[j] = id}

\* the list a settled, successful load carried: its documents field, or none
Carried(d) == IF "documents" \in DOMAIN d.res.data THEN d.res.data.documents ELSE <<>>

\* the document list the most recent successful load of history h carried
RECURSIVE LastLoaded(_)
LastLoaded(h) ==
    IF h = <<>> THEN <<>>
    ELSE IF Last(h).fn = "loadRag" /\ Succeeded(Last(h)) THEN Carried(Last(h))
    ELSE LastLoaded(SubSeq(h, 1, Len(h) - 1))

\* the same, a successful clear counting as a write of the empty list
RECURSIVE LastWritten(_)
LastWritten(h) ==
    IF h = <<>> THEN <<>>
    ELSE IF Last(h).fn = "loadRag" /\ Succeeded(Last(h)) THEN Carried(Last(h))
    ELSE IF Last(h).fn = "clearRag" /\ Succeeded(Last(h)) THEN <<>>
    ELSE LastWritten(SubSeq(h, 1, Len(h) - 1))

\* ------------------------------------------------------------------ C1
\* C1 as stated: in every reachable state docs is the list carried by the
\* most recently completed successful load.  A successful clear after that
\* load empties docs, so this fails.
C1_DocsIsLastLoad == docs = LastLoaded(done)

\* C1, amended: in every reachable state docs is the value written by the
\* most recently completed successful load or clear (a clear writes the empty
\* list), in completion order and whatever the order the requests started
\* in; a load still in flight has written nothing.
C1_LastCompletedWins == docs = LastWritten(done)

\* load A started before load B, B completed first, A completed last and
\* carried a different list: docs is A's list
C1_RaceWitness ==
    /\ Len(done) >= 2
    /\ \E i \in 1..(Len(done) - 1) :
          /\ done[i].fn = "loadRag" /\ Succeeded(done[i])
          /\ Last(done).fn = "loadRag" /\ Succeeded(Last(done))
          /\ Last(done).id < done[i].id
          /\ Carried(done[i]) # Carried(Last(done))
          /\ docs = Carried(Last(done))

\* ------------------------------------------------------------------ C2
\* C2 as stated: no two requests of the same handler are awaiting their
\* response at the same time.  Clear has no busy flag, so two clears are.
C2_OnePerKind ==
    \A fn \in {"loadRag", "clearRag", "addRag", "searchRag", "benchmarkRag"} :
        Cardinality(Pending(fn)) <= 1

\* C2, amended: at most one search and at most one benchmark are awaiting
\* their response at any time; list loads, clears and adds are not limited.
C2_OneSearchOneBenchmark ==
    /\ Cardinality(Pending("searchRag")) <= 1
    /\ Cardinality(Pending("benchmarkRag")) <= 1

\* a search is pending, the query is not blank and there is room for another
\* request: only the disabled Search button holds a second search back
C2_Witness ==
    /\ Pending("searchRag") # {} /\ searching
    /\ Trim(query) # <<>>
    /\ Budget(1)

\* ------------------------------------------------------------------ C3
\* C3: while a benchmark request is awaiting its response, metrics is null,
\* whatever it held before and whatever else completed since the start.
C3_NoMetricsWhileBenchmarking == Pending("benchmarkRag") # {} => metrics = Null

\* a benchmark is pending after an earlier one stored metrics, and another
\* request has logged its completion since the pending one started
C3_Witness ==
    \E f \in Pending("benchmarkRag") :
        /\ \E i \in 1..Len(done) :
              done[i].fn = "benchmarkRag" /\ Succeeded(done[i])
        /\ \E i, j \in 1..Len(logs) : i < j /\ logBy[i] = f.id /\ logBy[j] # f.id
        /\ metrics = Null

\* ------------------------------------------------------------------ C4
\* C4: a benchmark response that arrives as a success but lacks a mandatory
\* sub-record is handled as a failure: its request owns a failure line and
\* no success line, and metrics is null once it has settled.
C4_InvalidPayloadIsFailure ==
    \A i \in 1..Len(done) :
        (/\ done[i].fn = "benchmarkRag" /\ Succeeded(done[i])
         /\ ~(Mandatory \subseteq done[i].res.data.has))
        => /\ \E j \in LinesOf(done[i].id) : logs[j].msg = "Benchmark error"
           /\ \A j \in LinesOf(done[i].id) :
                 logs[j].msg # "Benchmark completed successfully!"
           /\ i = Len(done) => metrics = Null

\* ------------------------------------------------------------------ C5
\* a string that is empty once trimmed: nothing in it but blanks
Blank(t) == \A i \in 1..Len(t) : t[i] = " "

\* C5: an invocation of addRag with a blank newText, or of searchRag with a
\* blank query, sends no request, appends no log line and changes no hook.
C5_BlankInputIsNoop ==
    [][(/\ lastCall'.n = lastCall.n + 1
        /\ \/ lastCall'.fn = "addRag" /\ Blank(newText)
           \/ lastCall'.fn = "searchRag" /\ Blank(query))
       => UNCHANGED <<network, inflight, state, history>>]_vars

\* addRag has just been invoked on a text of one blank and has sent nothing
C5_Witness ==
    /\ lastCall.fn = "addRag" /\ Noops >= 1
    /\ newText = <<" ">>
    /\ \A i \in 1..Len(network) : network[i].url # "/rag/add"

\* ------------------------------------------------------------------ C6
\* C6: every search request sent carries an integer top_k >= 1 and a
\* similarity_threshold within [0, 1] (0 to 100 hundredths).
C6_SearchParametersInRange ==
    \A i \in 1..Len(network) :
        network[i].url = "/rag/search"
        => /\ network[i].body.top_k >= 1
           /\ network[i].body.similarity_threshold \in 0..100

\* ------------------------------------------------------------------ C7
\* C7: the step in which a list load settles successfully sets docs to
\* exactly the list the response carried (empty when it carried none) and
\* appends exactly one log line, recording that list's length.
C7_LoadStoresReturnedList ==
    [][(/\ done' # done
        /\ Last(done').fn = "loadRag"
        /\ Succeeded(Last(done')))
       => /\ docs' = Carried(Last(done'))
          /\ logs' = Append(logs, [msg |-> "Loaded RAG documents",
                                   n |-> Len(Carried(Last(done')))])]_vars

\* a load whose response carried no documents field has just replaced a
\* non-empty list by the empty one and logged a count of 0
C7_Witness ==
    /\ Len(done) >= 2
    /\ Last(done).fn = "loadRag" /\ Succeeded(Last(done))
    /\ "documents" \notin DOMAIN Last(done).res.data
    /\ done[Len(done) - 1].fn = "loadRag" /\ Succeeded(done[Len(done) - 1])
    /\ Carried(done[Len(done) - 1]) # <<>>
    /\ docs = <<>>
    /\ Last(logs) = [msg |-> "Loaded RAG documents", n |-> 0]

\* ------------------------------------------------------------------ C8
\* C8: the step in which a list load or a clear settles with an error leaves
\* docs as it was, appends exactly one failure line carrying the error's
\* message, and the handler does not reject.
C8_FailureKeepsDocs ==
    [][(/\ done' # done
        /\ Last(done').fn \in {"loadRag", "clearRag"}
        /\ ~Succeeded(Last(done')))
       => /\ docs' = docs
          /\ logs' = Append(logs,
                 [msg |-> IF Last(done').fn = "loadRag" THEN "Failed to load RAG"
                                                       ELSE "Failed to clear RAG",
                  error |-> Last(done').res.message])
          /\ ~Last(done').rejected]_vars

\* a clear has just failed while docs held documents
C8_Witness ==
    /\ done # <<>>
    /\ Last(done).fn = "clearRag" /\ ~Succeeded(Last(done))
    /\ docs # <<>>
    /\ Last(logs).msg = "Failed to clear RAG"

\* ------------------------------------------------------------------ C9
\* C9: every clear that succeeded owns exactly one log line, the cleared
\* line, and docs is empty as long as no other request has settled after
\* it; so of two clears settling one after the other, both leave docs empty
\* and they add two lines.
C9_ClearIdempotent ==
    /\ \A i \in 1..Len(done) :
          (done[i].fn = "clearRag" /\ Succeeded(done[i]))
          => /\ Cardinality(LinesOf(done[i].id)) = 1
             /\ \A j \in LinesOf(done[i].id) : logs[j] = [msg |-> "Cleared RAG documents"]
    /\ (done # <<>> /\ Last(done).fn = "clearRag" /\ Succeeded(Last(done)))
       => docs = <<>>

\* two clears have succeeded one after the other, after a load had stored
\* documents: docs is empty and the log ends with the two cleared lines
C9_Witness ==
    /\ Len(done) >= 3
    /\ done[Len(done) - 2].fn = "loadRag" /\ Succeeded(done[Len(done) - 2])
    /\ Carried(done[Len(done) - 2]) # <<>>
    /\ \A i \in {Len(done) - 1, Len(done)} :
          done[i].fn = "clearRag" /\ Succeeded(done[i])
    /\ docs = <<>>
    /\ Len(logs) >= 2
    /\ logs[Len(logs) - 1] = [msg |-> "Cleared RAG documents"]
    /\ Last(logs) = [msg |-> "Cleared RAG documents"]
    /\ logBy[Len(logs) - 1] # Last(logBy)

\* ----------------------------------------------------------------- C10
\* the list loads called by the continuation of add a, pending or settled
TriggeredBy(a) ==
    {f.id : f \in {g \in inflight : g.fn = "loadRag" /\ g.by = a}}
    \cup {done[i].id : i \in {k \in 1..Len(done) : done[k].fn = "loadRag" /\ done[k].by = a}}

\* C10: every add that succeeded sent a non-blank text, owns one log line
\* (the added line), and has triggered exactly one list request, sent after
\* the add settled; when that load has succeeded its loaded line, with the
\* length of the list it carried, comes after the added line, and docs is
\* that list as long as nothing else has settled since.  No list request is
\* triggered by an add that has not succeeded.
C10_AddThenRefresh ==
    /\ \A i \in 1..Len(done) :
          (done[i].fn = "addRag" /\ Succeeded(done[i]))
          => /\ ~Blank(network[done[i].id].body.text)
             /\ Cardinality(LinesOf(done[i].id)) = 1
             /\ \A j \in LinesOf(done[i].id) : logs[j] = [msg |-> "Added new RAG document"]
             /\ Cardinality(TriggeredBy(done[i].id)) = 1
             /\ \A l \in TriggeredBy(done[i].id) :
                   /\ l > done[i].id
                   /\ network[l].url = "/rag/list"
                   /\ \A k \in 1..Len(done) :
                         (done[k].id = l /\ Succeeded(done[k]))
                         => /\ k > i
                            /\ \E j \in LinesOf(l) :
                                  /\ logs[j] = [msg |-> "Loaded RAG documents",
                                                n |-> Len(Carried(done[k]))]
                                  /\ \A a \in LinesOf(done[i].id) : a < j
                            /\ k = Len(done) => docs = Carried(done[k])
    /\ \A f \in inflight \cup {done[k] : k \in 1..Len(done)} :
          (f.fn = "loadRag" /\ f.by # 0)
          => \E i \in 1..Len(done) :
                 done[i].id = f.by /\ done[i].fn = "addRag" /\ Succeeded(done[i])

\* an add succeeded, the load it triggered returned one document: docs is
\* that document and the log ends with the added line and the loaded line
C10_Witness ==
    /\ Len(done) >= 2
    /\ Last(done).fn = "loadRag" /\ Last(done).by # 0 /\ Succeeded(Last(done))
    /\ docs = <<"d1">>
    /\ Len(logs) >= 2
    /\ logs[Len(logs) - 1] = [msg |-> "Added new RAG document"]
    /\ Last(logs) = [msg |-> "Loaded RAG documents", n |-> 1]

\* ----------------------------------------------------------------- C11
\* C11: the step in which an add settles empties newText when the request
\* succeeded, and when it failed leaves newText as it was and appends
\* exactly one failure line.
C11_TextClearedIffAdded ==
    [][(done' # done /\ Last(done').fn = "addRag")
       => IF Succeeded(Last(done'))
          THEN newText' = <<>>
          ELSE /\ newText' = newText
               /\ logs' = Append(logs, [msg |-> "Failed to add RAG doc",
                                        error |-> Last(done').res.message])]_vars

\* an add has just failed and the text it was sent from is still in the box
C11_Witness ==
    /\ done # <<>>
    /\ Last(done).fn = "addRag" /\ ~Succeeded(Last(done))
    /\ ~Blank(newText)
    /\ Trim(newText) = network[Last(done).id].body.text
    /\ Last(logs).msg = "Failed to add RAG doc"

\* ----------------------------------------------------------------- C12
\* the result list the most recent successful search of history h carried
RECURSIVE LastFound(_)
LastFound(h) ==
    IF h = <<>> THEN <<>>
    ELSE IF Last(h).fn = "searchRag" /\ Succeeded(Last(h))
         THEN (IF "results" \in DOMAIN Last(h).res.data
               THEN Last(h).res.data.results ELSE <<>>)
    ELSE LastFound(SubSeq(h, 1, Len(h) - 1))

\* C12: searchResults is the list carried by the most recently completed
\* successful search (empty before any), failed searches changing nothing;
\* and every successful search owns one log line, with the length of its
\* list and the top_k and threshold its request was sent with.
C12_ResultsAreLastSearch ==
    /\ searchResults = LastFound(done)
    /\ \A i \in 1..Len(done) :
          (done[i].fn = "searchRag" /\ Succeeded(done[i]))
          => /\ Cardinality(LinesOf(done[i].id)) = 1
             /\ \A j \in LinesOf(done[i].id) :
                   logs[j] = [msg |-> "Search found",
                              n |-> Len(LastFound(SubSeq(done, 1, i))),
                              top_k |-> network[done[i].id].body.top_k,
                              thr |-> network[done[i].id].body.similarity_threshold]

\* a search found a result, the next one failed and Top K was changed
\* meanwhile: the results are still the first search's, and its line shows
\* the top_k it was sent with
C12_Witness ==
    /\ Len(done) >= 2
    /\ Last(done).fn = "searchRag" /\ ~Succeeded(Last(done))
    /\ \E i \in 1..(Len(done) - 1) :
          /\ done[i].fn = "searchRag" /\ Succeeded(done[i])
          /\ network[done[i].id].body.top_k # topK
    /\ searchResults = <<"r1">>

\* ----------------------------------------------------------------- C13
\* C13: across every step the log before the step is a prefix of the log
\* after it: lines are only ever appended, whatever the order in which the
\* pending requests settle.
C13_LogAppendOnly ==
    [][/\ Len(logs') >= Len(logs)
       /\ SubSeq(logs', 1, Len(logs)) = logs]_vars

\* two requests were pending together and settled in the reverse of the
\* order they were sent in; both have their line, in completion order
C13_Witness ==
    \E i, j \in 1..Len(done) :
        /\ i < j
        /\ done[i].id > done[j].id
        /\ \E a \in LinesOf(done[i].id) : \E b \in LinesOf(done[j].id) : a < b
        /\ Len(logs) >= Len(done)

\* ----------------------------------------------------------------- C14
\* the benchmark requests sent so far
Benchmarks == {id \in 1..Len(network) : network[id].url = "/rag_metrics"}

HasSettled(id) == \E i \in 1..Len(done) : done[i].id = id

\* C14 as stated: the log has as many lines as requests have settled.
C14_OneLinePerCompletion == Len(logs) = Len(done)

\* C14: every request owns one line once it has settled, the list request
\* an add sends included, and a benchmark owns one more from the moment it
\* is sent ("Starting benchmark"); every line belongs to a request, so an
\* invocation that returned without sending has none.  The log is as long
\* as the number of settled requests plus the number of benchmarks sent.
C14_LinesPerOperation ==
    /\ Len(logs) = Len(done) + Cardinality(Benchmarks)
    /\ \A j \in 1..Len(logBy) : logBy[j] \in 1..Len(network)
    /\ \A id \in 1..Len(network) :
          Cardinality(LinesOf(id)) =
              (IF HasSettled(id) THEN 1 ELSE 0) + (IF id \in Benchmarks THEN 1 ELSE 0)

\* a benchmark and a failed add have settled and addRag was once called on
\* a blank textarea: three requests settled, four lines
C14_Witness ==
    /\ inflight = {}
    /\ Noops >= 1
    /\ \E i \in 1..Len(done) : done[i].fn = "benchmarkRag"
    /\ \E i \in 1..Len(done) : done[i].fn = "addRag" /\ ~Succeeded(done[i])
    /\ Len(logs) = Len(done) + 1

\* ----------------------------------------------------------------- C15
\* the metrics history h leaves behind: the payload of its latest benchmark
\* when that one succeeded, none otherwise
RECURSIVE LastMeasured(_)
LastMeasured(h) ==
    IF h = <<>> THEN Null
    ELSE IF Last(h).fn = "benchmarkRag"
         THEN (IF Succeeded(Last(h)) THEN Last(h).res.data ELSE Null)
    ELSE LastMeasured(SubSeq(h, 1, Len(h) - 1))

\* the last request to settle is a failed benchmark, and its two lines close
\* the log: nothing settled while it was in flight, nothing started since
AloneAndFailed ==
    /\ done # <<>>
    /\ Last(done).fn = "benchmarkRag" /\ ~Succeeded(Last(done))
    /\ Len(logBy) >= 2
    /\ logBy[Len(logBy)] = Last(done).id
    /\ logBy[Len(logBy) - 1] = Last(done).id

\* C15 as stated, for the benchmark: after a benchmark failed with nothing
\* else settling meanwhile, docs, searchResults and metrics are what they
\* were when it started, the metrics of the previous benchmark included.
C15_FailureRestoresStore ==
    AloneAndFailed =>
        LET before == SubSeq(done, 1, Len(done) - 1) IN
        /\ docs = LastWritten(before)
        /\ searchResults = LastFound(before)
        /\ metrics = LastMeasured(before)

\* C15: the step in which a request fails, whichever of the five handlers
\* sent it, leaves docs, searchResults and metrics as they were just before
\* it; docs and searchResults are always what the requests settled so far
\* wrote, so a failure with nothing settling meanwhile leaves them as they
\* were when the request was sent.  metrics is none from the moment a
\* benchmark is sent: after a benchmark failed it is none, whatever was held
\* before.
C15_FailureWritesNothing ==
    /\ [](/\ docs = LastWritten(done)
          /\ searchResults = LastFound(done)
          /\ metrics = IF Pending("benchmarkRag") # {} THEN Null
                                                        ELSE LastMeasured(done))
    /\ [][(done' # done /\ ~Succeeded(Last(done')))
            => /\ UNCHANGED <<docs, searchResults, metrics>>
               /\ Last(done').fn = "benchmarkRag" => metrics' = Null]_vars

\* documents were loaded and a benchmark stored its payload; the next
\* benchmark failed alone: the documents are still there, the payload is not
C15_Witness ==
    /\ AloneAndFailed
    /\ LastMeasured(SubSeq(done, 1, Len(done) - 1)) # Null
    /\ docs # <<>>
    /\ metrics = Null

\* ----------------------------------------------------------------- C16
\* C16: the step in which a load, a search or a benchmark settles, with a
\* response or with an error, leaves its busy flag false; no settled request
\* let its error escape; with nothing in flight loading, searching and
\* isBenchmarking are all false; and, every request being answered in the
\* end, every request sent settles.
C16_BusyFlagsReleased ==
    /\ [][done' # done =>
            /\ Last(done').fn = "loadRag" => ~loading'
            /\ Last(done').fn = "searchRag" => ~searching'
            /\ Last(done').fn = "benchmarkRag" => ~isBenchmarking']_vars
    /\ [](\A i \in 1..Len(done) : ~done[i].rejected)
    /\ [](inflight = {} => ~loading /\ ~searching /\ ~isBenchmarking)
    /\ \A id \in 1..MaxReq : (Len(network) >= id) ~> HasSettled(id)

\* a load, a search and a benchmark have all settled, the search and the
\* benchmark with an error; nothing is in flight and no flag is left set
C16_Witness ==
    /\ inflight = {}
    /\ \E i \in 1..Len(done) : done[i].fn = "loadRag"
    /\ \E i \in 1..Len(done) : done[i].fn = "searchRag" /\ ~Succeeded(done[i])
    /\ \E i \in 1..Len(done) : done[i].fn = "benchmarkRag" /\ ~Succeeded(done[i])
    /\ ~loading /\ ~searching /\ ~isBenchmarking

\* ----------------------------------------------------------------- C17
\* C17: whatever metrics the page holds, it never shows both the RAG Impact
\* section and the skipped message, and it shows neither when there are no
\* metrics or the metrics have no rag_impact.
C17_ImpactBranchesExclusive ==
    /\ ~(ShowsRagImpact(metrics) /\ ShowsSkipped(metrics))
    /\ (metrics = Null \/ "rag_impact" \notin metrics.has)
          => ~ShowsRagImpact(metrics) /\ ~ShowsSkipped(metrics)

\* the stored payload has a rag_impact with both a skipped reason and the
\* quantitative fields: only the skipped message is shown
C17_Witness ==
    /\ metrics # Null
    /\ {"skipped", "query"} \subseteq metrics.rag_impact
    /\ ShowsSkipped(metrics) /\ ~ShowsRagImpact(metrics)

\* ----------------------------------------------------------------- C18
\* the handler behind a request
HandlerOf(url) ==
    CASE url = "/rag/list" -> "loadRag"
      [] url = "/rag/clear" -> "clearRag"
      [] url = "/rag/add" -> "addRag"
      [] url = "/rag/search" -> "searchRag"
      [] url = "/rag_metrics" -> "benchmarkRag"

\* the handlers that run in a step: the one that sends a request, the one
\* that resumes
Acting ==
    (IF network' # network THEN {HandlerOf(Last(network').url)} ELSE {})
    \cup (IF done' # done THEN {Last(done').fn} ELSE {})

\* C18: a step changes loading only if loadRag runs in it, searching and
\* searchResults only if searchRag does, isBenchmarking and metrics only if
\* benchmarkRag does, docs only if loadRag or clearRag does: no handler
\* starting or resuming touches the flag or the store field of another.
C18_FlagsIndependent ==
    [][/\ "loadRag" \notin Acting => loading' = loading
       /\ "searchRag" \notin Acting
             => searching' = searching /\ searchResults' = searchResults
       /\ "benchmarkRag" \notin Acting
             => isBenchmarking' = isBenchmarking /\ metrics' = metrics
       /\ Acting \cap {"loadRag", "clearRag"} = {} => docs' = docs]_vars

\* a search and a benchmark are both awaiting their response, each with its
\* own flag set, and the mount load has settled meanwhile
C18_Witness ==
    /\ Pending("searchRag") # {} /\ Pending("benchmarkRag") # {}
    /\ searching /\ isBenchmarking /\ ~loading
    /\ \E i \in 1..Len(done) : done[i].fn = "loadRag"

\* ----------------------------------------------------------------- C19
\* the type a benchmark logged when it was sent: <<"RAG without LLM">>, or
\* <<"RAG with LLM", name>>
StartedAs(id) == logs[CHOOSE j \in LinesOf(id) : \A k \in LinesOf(id) : j <= k].type

\* C19: every benchmark request that logged "RAG without LLM" was sent with
\* the empty body, every one that logged "RAG with LLM (name)" with
\* {llm_name: name}, the name not blank; and the step that sends one from
\* the Start Benchmark button sends the name the input holds, every other
\* step that sends one sends the empty body.
C19_BenchmarkBody ==
    /\ [](\A id \in Benchmarks :
            IF Len(StartedAs(id)) = 1
            THEN DOMAIN network[id].body = {}
            ELSE /\ network[id].body = [llm_name |-> StartedAs(id)[2]]
                 /\ ~Blank(network[id].body.llm_name))
    /\ [][(network' # network /\ Last(network').url = "/rag_metrics")
            => IF showLlmOption /\ ~showLlmOption'
               THEN /\ Last(network').body = [llm_name |-> benchmarkLlm]
                    /\ ~Blank(benchmarkLlm)
               ELSE DOMAIN Last(network').body = {}]_vars

\* a benchmark was sent with an LLM name; the name input is open again and
\* holds only a space: Start Benchmark is disabled for that alone
C19_Witness ==
    /\ \E id \in Benchmarks : DOMAIN network[id].body = {"llm_name"}
    /\ showLlmOption /\ ~isBenchmarking /\ Budget(1)
    /\ Blank(benchmarkLlm)

\* ----------------------------------------------------------------- C20
\* the failed response carries an error field
ServerSaid(e) == "data" \in DOMAIN e.response /\ "error" \in DOMAIN e.response.data

\* C20: the step in which a benchmark fails appends one line, "Benchmark
\* error", with the error field of the failed response when there is one
\* and the message of the axios error otherwise; it leaves metrics unset
\* and isBenchmarking false.
C20_BenchmarkFailureLine ==
    [][(done' # done /\ Last(done').fn = "benchmarkRag" /\ ~Succeeded(Last(done')))
        => LET e == Last(done').res IN
           /\ logs' = Append(logs,
                  [msg |-> "Benchmark error",
                   error |-> IF ServerSaid(e) THEN e.response.data.error ELSE e.message])
           /\ metrics' = Null
           /\ ~isBenchmarking']_vars

\* a benchmark was refused by the server and another failed in transport:
\* the log shows the server's words for the first, the axios message for
\* the second
C20_Witness ==
    /\ Len(done) >= 2
    /\ Last(done).fn = "benchmarkRag" /\ ~Succeeded(Last(done))
    /\ ~ServerSaid(Last(done).res)
    /\ Last(logs) = [msg |-> "Benchmark error", error |-> "Network Error"]
    /\ \E i \in 1..(Len(done) - 1) :
          /\ done[i].fn = "benchmarkRag" /\ ~Succeeded(done[i]) /\ ServerSaid(done[i].res)
          /\ \E j \in LinesOf(done[i].id) : logs[j] = [msg |-> "Benchmark error", error |-> "index busy"]
    /\ metrics = Null /\ ~isBenchmarking

\* ----------------------------------------------------------------- C21
\* C21: whenever a list request is pending loading is true, whenever a
\* search is pending searching is true, whenever a benchmark is pending
\* isBenchmarking is true.
C21_FlagsAccurate ==
    /\ Pending("loadRag") # {} => loading
    /\ Pending("searchRag") # {} => searching
    /\ Pending("benchmarkRag") # {} => isBenchmarking

\* ----------------------------------------------------------------- C22
\* C22: once a clear has succeeded, and as long as every list request that
\* settled after it had been sent before the clear was, docs is empty.
C22_ClearedStaysEmpty ==
    (\E i \in 1..Len(done) :
        /\ done[i].fn = "clearRag" /\ Succeeded(done[i])
        /\ \A k \in (i + 1)..Len(done) :
              /\ done[k].fn \in {"loadRag", "clearRag"}
              /\ done[k].fn = "loadRag" => done[k].id < done[i].id)
    => docs = <<>>

\* ----------------------------------------------------------------- C23
\* C23: the step in which a list request sent by addRag fails appends
\* "Failed to load RAG" with the error's message, leaves docs and the
\* textarea as they are and loading false; the add that sent it had
\* succeeded, owns the single line "Added new RAG document", earlier in the
\* log, and emptied the textarea in the step it settled in.
C23_LoadFailureAfterAdd ==
    /\ [][(done' # done /\ Last(done').fn = "loadRag" /\ Last(done').by # 0
                        /\ ~Succeeded(Last(done')))
            => /\ logs' = Append(logs, [msg |-> "Failed to load RAG",
                                        error |-> Last(done').res.message])
               /\ docs' = docs
               /\ newText' = newText
               /\ ~loading']_vars
    /\ [][(done' # done /\ Last(done').fn = "addRag" /\ Succeeded(Last(done')))
            => newText' = <<>>]_vars
    /\ [](\A i \in 1..Len(done) :
            (done[i].fn = "loadRag" /\ done[i].by # 0) =>
                /\ \E a \in 1..(i - 1) :
                      /\ done[a].id = done[i].by
                      /\ done[a].fn = "addRag" /\ Succeeded(done[a])
                /\ Cardinality(LinesOf(done[i].by)) = 1
                /\ \A j \in LinesOf(done[i].by) :
                      /\ logs[j].msg = "Added new RAG document"
                      /\ \A k \in LinesOf(done[i].id) : j < k)

\* documents were loaded, an add succeeded and the list request it sent
\* failed: the documents are still shown, the textarea is empty, nothing is
\* pending and loading is false
C23_Witness ==
    /\ done # <<>>
    /\ Last(done).fn = "loadRag" /\ Last(done).by # 0 /\ ~Succeeded(Last(done))
    /\ Last(logs).msg = "Failed to load RAG"
    /\ docs # <<>> /\ newText = <<>>
    /\ inflight = {} /\ ~loading

\* ----------------------------------------------------------------- C24
\* C24: the step in which an add succeeds leaves the textarea as it is when
\* the text it holds is no longer the text that was sent.
C24_ClearsOnlySubmitted ==
    [][(/\ done' # done
        /\ Last(done').fn = "addRag" /\ Succeeded(Last(done'))
        /\ Trim(newText) # network[Last(done').id].body.text)
       => newText' = newText]_vars

====
